---- MODULE Spec2Model ----
(***************************************************************************)
(* ActorLink: the bidirectional breadth-first search of link_finder.rs and *)
(* its path reconstruction, over the movie_actors relation of db.rs.       *)
(*                                                                         *)
(* One caller invokes find_actor_link_bidirectional_bfs on a store that    *)
(* ingestion filled beforehand.  A HashSet is iterated in an order the     *)
(* program does not fix: the model keeps the part of the set that is still *)
(* to be iterated and takes any element of it next.  Every store query may *)
(* fail with a rusqlite error.                                             *)
(***************************************************************************)
EXTENDS Integers, Sequences, FiniteSets, TLC

(* ------------------------------ bounds -------------------------------- *)
\* rows of the movie_actors table
MaxLinks == 6
\* entries of a parent map handed to construct_path on its own (SpecCP)
MaxEntries == 1

\* the longest chain of shared movies that MaxLinks rows can form: a chain of
\* k hops takes k movies of two actors each; the ids in use are as many as
\* that chain needs
MaxHops == MaxLinks \div 2
Actors == 1..(MaxHops + 1)
Movies == 1..MaxHops

\* requests the server receives
MaxRequests == 3
Requests == 1..MaxRequests

\* movie ids of the catalogue that populate_database goes through, standing
\* for 232000..262000
MaxCatalog == 3
Catalog == 1..MaxCatalog

\* entries a batch holds when process_batch is called on it, standing for 50
BatchSize == 2

\* rusqlite errors a query can end with
StoreErrors == {"busy", "corrupt"}

VARIABLES
  movie_actors,           \* rows of the movie_actors table: <<movie_id, actor_id>>
  pc,                     \* position of the caller
  start_actor_id,
  target_actor_id,
  forward_queue,
  backward_queue,
  forward_visited,
  backward_visited,
  forward_path,           \* actor_id -> parent_actor_id in forward search
  backward_path,          \* actor_id -> parent_actor_id in backward search
  level_left,             \* iterations left of `for _ in 0..level_size`
  current_actor_id,
  movie_ids,              \* part of the HashSet not yet iterated
  actor_ids,              \* part of the HashSet not yet iterated
  intersection_actor_id,
  current_id,
  path,
  backward_path_segment,
  result,                 \* Result<Option<Vec<i64>>> of the call
  queried,                \* a store query was issued during the call
  store_err,              \* the error the store raised during the call
  failed_at,              \* where the call stood when the store raised it
  cp_missing,             \* a parent-map lookup of construct_path found no entry
  forward_levels,         \* forward levels the call began to expand
  backward_levels,        \* backward levels the call began to expand
  hpc,                    \* position of the handler get_actor_link
  request,                \* ActorLinkRequest: the two names supplied
  start_actor_id_result,
  target_actor_id_result,
  path_index,             \* i of `for i in 0..path_ids.len()`, counted from 1
  actor_names_path,
  link_path_details,
  response,               \* the HttpResponse of the handler
  db_conn,                \* the Mutex around the connection the server shares
  stage,                  \* where each request to the server stands
  ppc,                    \* position of populate_database
  stream,                 \* movie ids the stream has yet to yield
  batch,
  batch_index,            \* position of process_batch in the batch, from 1
  tx,                     \* the transaction: its state and the rows it wrote
  tables,                 \* committed rows of the movies and actors tables
  populate_result,        \* Result<(), Box<dyn Error>> of populate_database
  prev_call               \* the caller's note of an earlier completed call

locals == <<forward_queue, backward_queue, forward_visited, backward_visited,
            forward_path, backward_path, level_left, current_actor_id, movie_ids,
            actor_ids>>
cp_vars == <<intersection_actor_id, current_id, path, backward_path_segment>>
args == <<start_actor_id, target_actor_id>>
levels == <<forward_levels, backward_levels>>
handler == <<hpc, request, start_actor_id_result, target_actor_id_result,
             path_index, actor_names_path, link_path_details, response>>
server == <<db_conn, stage>>
population == <<ppc, stream, batch, batch_index, tx, tables, populate_result>>
vars == <<movie_actors, pc, args, locals, cp_vars, result, queried, store_err,
          failed_at, cp_missing, levels, prev_call, handler, server, population>>

(* ------------------------------ values -------------------------------- *)
NoActor == 0
NoErr == "none"
EmptyMap == [x \in {} |-> NoActor]
NoCall == [s |-> NoActor, t |-> NoActor, kind |-> "Pending", len |-> 0]

\* Result<Option<Vec<i64>>>
Pending == [kind |-> "Pending", path |-> <<>>, err |-> NoErr]
OkNone == [kind |-> "None", path |-> <<>>, err |-> NoErr]
OkSome(p) == [kind |-> "Some", path |-> p, err |-> NoErr]
Err(e) == [kind |-> "Err", path |-> <<>>, err |-> e]

\* Option<T>
None == <<>>
Some(x) == <<x>>

\* no HttpResponse: the handler has not answered
NoResponse == [status |-> "none", path |-> None, link_path |-> None,
               link_number |-> None, error |-> None]
NoRequest == [start_actor_name |-> "", target_actor_name |-> ""]
NoLookup == [ok |-> TRUE, some |-> FALSE, val |-> NoActor, err |-> NoErr]

\* HashMap::insert with the key and the value exchanged
MapInsertSwapped(m, k, v) == [x \in DOMAIN m \cup {v} |-> IF x = v THEN k ELSE m[x]]

\* HashMap::insert
MapInsert(m, k, v) == [x \in DOMAIN m \cup {k} |-> IF x = k THEN v ELSE m[x]]

\* path.reverse() lost
NotReversed(s) == s

\* Vec::reverse
Reverse(s) == [i \in 1..Len(s) |-> s[Len(s) + 1 - i]]

(* ------------------------- adjacency accessor ------------------------- *)
\* Result<HashSet<i64>> of a query: the rows, or the error of prepare/query/next/get
QueryResults(rows) ==
  {[ok |-> TRUE, rows |-> rows, err |-> NoErr]}
    \cup {[ok |-> FALSE, rows |-> {}, err |-> e] : e \in StoreErrors}

\* a statement that deletes the rows it read
SelectPurging(conn) == {}

\* the table after a SELECT statement ran on it
Select(conn) == conn

\* SELECT actor_id FROM movie_actors, the WHERE clause lost
get_actor_ids_unfiltered(conn, movie_id) ==
  QueryResults({r[2] : r \in conn})

get_actor_ids_for_movie(conn, movie_id) ==
  QueryResults({r[2] : r \in {q \in conn : q[1] = movie_id}})

\* SELECT movie_id FROM movie_actors, the WHERE clause lost
get_movie_ids_unfiltered(conn, actor_id) ==
  QueryResults({r[1] : r \in conn})

get_movie_ids_for_actor(conn, actor_id) ==
  QueryResults({r[1] : r \in {q \in conn : q[2] = actor_id}})

\* unwrap_or_default in place of `?`: a failed query reads as no rows
FailedIgnored(r) == FALSE

\* the `?` after a query: an Err leaves the function
Failed(r) == ~r.ok

(* ------------------------------- store -------------------------------- *)
\* INSERT INTO movie_actors (movie_id, actor_id): ingestion, before serving
insert_movie_actor_link ==
  /\ pc = "idle"
  /\ hpc = "idle"
  /\ Cardinality(movie_actors) < MaxLinks
  /\ \E movie_id \in Movies, actor_id \in Actors :
       /\ <<movie_id, actor_id>> \notin movie_actors
       /\ movie_actors' = movie_actors \cup {<<movie_id, actor_id>>}
  /\ UNCHANGED <<pc, args, locals, cp_vars, result, queried, store_err, failed_at,
                 cp_missing, levels, prev_call>>
  /\ UNCHANGED <<handler, server, population>>

(* ------------------------------- engine ------------------------------- *)
\* return: the locals are dropped, the caller keeps the arguments and the value
Return(r) ==
  /\ pc' = "done"
  /\ result' = r
  /\ forward_queue' = <<>>
  /\ backward_queue' = <<>>
  /\ forward_visited' = {}
  /\ backward_visited' = {}
  /\ forward_path' = EmptyMap
  /\ backward_path' = EmptyMap
  /\ level_left' = 0
  /\ current_actor_id' = NoActor
  /\ movie_ids' = {}
  /\ actor_ids' = {}
  /\ intersection_actor_id' = NoActor
  /\ current_id' = NoActor
  /\ path' = <<>>
  /\ backward_path_segment' = <<>>
  /\ UNCHANGED <<args, prev_call>>

\* the early return lost
SameActorUnchecked(s, t) == FALSE

\* if start_actor_id == target_actor_id
SameActor(s, t) == s = t

\* find_actor_link_bidirectional_bfs(conn, s, t) up to the loop
Enter(s, t) ==
  /\ start_actor_id' = s
  /\ target_actor_id' = t
  /\ IF SameActor(s, t)
       THEN /\ pc' = "done"
            /\ result' = OkSome(<<s>>)
            /\ forward_queue' = <<>>
            /\ backward_queue' = <<>>
            /\ forward_visited' = {}
            /\ backward_visited' = {}
       ELSE /\ pc' = "while"
            /\ result' = Pending
            /\ forward_queue' = <<s>>
            /\ backward_queue' = <<t>>
            /\ forward_visited' = {s}
            /\ backward_visited' = {t}
  /\ forward_path' = EmptyMap
  /\ backward_path' = EmptyMap
  /\ level_left' = 0
  /\ current_actor_id' = NoActor
  /\ movie_ids' = {}
  /\ actor_ids' = {}
  /\ intersection_actor_id' = NoActor
  /\ current_id' = NoActor
  /\ path' = <<>>
  /\ backward_path_segment' = <<>>
  /\ queried' = FALSE
  /\ store_err' = NoErr
  /\ failed_at' = "none"
  /\ cp_missing' = FALSE
  /\ forward_levels' = 0
  /\ backward_levels' = 0
  /\ UNCHANGED movie_actors

\* the caller invokes the search with any two actor ids
Call ==
  /\ pc = "idle"
  /\ \E s \in Actors, t \in Actors : Enter(s, t)
  /\ UNCHANGED prev_call
  /\ UNCHANGED <<handler, server, population>>

\* the least actor id: the store is any store over Actors and the search reads
\* ids only for equality, so a first call from this actor stands for all
FirstActor == CHOOSE a \in Actors : \A b \in Actors : a <= b

\* the caller's first call of a series on one store
FirstCall ==
  /\ pc = "idle"
  /\ \E t \in Actors : Enter(FirstActor, t)
  /\ UNCHANGED prev_call
  /\ UNCHANGED <<handler, server, population>>

\* what the caller notes of a call that returned Ok
Note(s, t, r) == [s |-> s, t |-> t, kind |-> r.kind, len |-> Len(r.path)]

\* the caller calls again on the unchanged store, with the same two actors or
\* with the two exchanged, and keeps a note of the call that just returned
Recall ==
  /\ pc = "done"
  /\ \E again \in {<<start_actor_id, target_actor_id>>,
                   <<target_actor_id, start_actor_id>>} :
       Enter(again[1], again[2])
  /\ prev_call' = IF result.kind = "Err"
                    THEN prev_call
                    ELSE Note(start_actor_id, target_actor_id, result)
  /\ UNCHANGED <<handler, server, population>>

\* front() in place of pop_front(): the actor stays in the queue
front_kept(queue) == queue

\* VecDeque::pop_front: the queue that is left
pop_front(queue) == Tail(queue)

\* the snapshot taken of the other queue
forward_level_of_backward == Len(backward_queue)

\* let forward_level_size = forward_queue.len()
forward_level_size == Len(forward_queue)

\* the snapshot taken of the other queue
backward_level_of_forward == Len(forward_queue)

\* let backward_level_size = backward_queue.len()
backward_level_size == Len(backward_queue)

\* while !forward_queue.is_empty() && !backward_queue.is_empty() { .. } Ok(None)
WhileCheck ==
  /\ pc = "while"
  /\ IF forward_queue # <<>> /\ backward_queue # <<>>
       THEN /\ pc' = "fwd_for"
            /\ level_left' = forward_level_size
            /\ forward_levels' = forward_levels + 1
            /\ UNCHANGED <<args, forward_queue, backward_queue, forward_visited,
                           backward_visited, forward_path, backward_path,
                           current_actor_id, movie_ids, actor_ids, cp_vars, result,
                           prev_call>>
       ELSE /\ Return(OkNone)
            /\ UNCHANGED forward_levels
  /\ UNCHANGED <<movie_actors, queried, store_err, failed_at, cp_missing,
                 backward_levels>>
  /\ UNCHANGED <<handler, server, population>>

\* the visited test lost: a neighbor is recorded again each time it is met
IsNewAlways(neighbor_actor_id, visited) == TRUE

\* if !visited.contains(&neighbor_actor_id)
IsNew(neighbor_actor_id, visited) == neighbor_actor_id \notin visited

\* the test against the other side's visited set lost
MeetsAlways(neighbor_actor_id, other_visited) == TRUE

\* the test against the other side's visited set never succeeding
MeetsNever(neighbor_actor_id, other_visited) == FALSE

\* if other_visited.contains(&neighbor_actor_id)
Meets(neighbor_actor_id, other_visited) == neighbor_actor_id \in other_visited

\* construct_path called with the dequeued actor in place of the neighbor
ConstructFromCurrent(intersection) ==
  /\ pc' = "cp_forward"
  /\ intersection_actor_id' = current_actor_id
  /\ current_id' = current_actor_id
  /\ path' = <<current_actor_id>>
  /\ backward_path_segment' = <<>>

\* construct_path: let mut path; current_id = intersection; path.push(current_id)
EnterConstructPath(intersection) ==
  /\ pc' = "cp_forward"
  /\ intersection_actor_id' = intersection
  /\ current_id' = intersection
  /\ path' = <<intersection>>
  /\ backward_path_segment' = <<>>

\* forward level: for _ in 0..forward_level_size { pop_front; get_movie_ids_for_actor(..)? }
ForwardPop ==
  /\ pc = "fwd_for"
  /\ IF level_left = 0
       THEN /\ pc' = "bwd_for"
            /\ level_left' = backward_level_size
            /\ backward_levels' = backward_levels + 1
            /\ movie_actors' = movie_actors
            /\ UNCHANGED <<args, forward_queue, current_actor_id, movie_ids,
                           forward_visited, forward_path, backward_queue,
                           backward_visited, backward_path, actor_ids,
                           cp_vars, result, queried, store_err, failed_at, prev_call>>
       ELSE IF forward_queue = <<>>
       THEN /\ level_left' = level_left - 1
            /\ movie_actors' = movie_actors
            /\ UNCHANGED <<pc, args, forward_queue, current_actor_id, movie_ids,
                           forward_visited, forward_path, backward_queue,
                           backward_visited, backward_path, actor_ids,
                           cp_vars, result, queried, store_err, failed_at, prev_call,
                           backward_levels>>
       ELSE \E r \in get_movie_ids_for_actor(movie_actors, Head(forward_queue)) :
              /\ UNCHANGED backward_levels
              /\ movie_actors' = Select(movie_actors)
              /\ queried' = TRUE
              /\ store_err' = IF r.ok THEN store_err ELSE r.err
              /\ failed_at' = IF r.ok THEN failed_at ELSE pc
              /\ IF Failed(r)
                   THEN Return(Err(r.err))
                   ELSE /\ pc' = "fwd_movies"
                        /\ level_left' = level_left - 1
                        /\ current_actor_id' = Head(forward_queue)
                        /\ forward_queue' = pop_front(forward_queue)
                        /\ movie_ids' = r.rows
                        /\ UNCHANGED <<args, forward_visited, forward_path,
                                       backward_queue,
                                       backward_visited, backward_path, actor_ids, cp_vars,
                                       result, prev_call>>
  /\ UNCHANGED <<cp_missing, forward_levels>>
  /\ UNCHANGED <<handler, server, population>>

\* for movie_id in movie_ids { get_actor_ids_for_movie(conn, movie_id)? }
ForwardMovie ==
  /\ pc = "fwd_movies"
  /\ IF movie_ids = {}
       THEN /\ pc' = "fwd_for"
            /\ movie_actors' = movie_actors
            /\ UNCHANGED <<args, locals, cp_vars, result, queried, store_err, failed_at,
                           prev_call>>
       ELSE \E movie_id \in movie_ids :
            \E r \in get_actor_ids_for_movie(movie_actors, movie_id) :
              /\ movie_actors' = Select(movie_actors)
              /\ queried' = TRUE
              /\ store_err' = IF r.ok THEN store_err ELSE r.err
              /\ failed_at' = IF r.ok THEN failed_at ELSE pc
              /\ IF Failed(r)
                   THEN Return(Err(r.err))
                   ELSE /\ pc' = "fwd_actors"
                        /\ movie_ids' = movie_ids \ {movie_id}
                        /\ actor_ids' = r.rows
                        /\ UNCHANGED <<args, forward_queue, backward_queue,
                                       forward_visited, backward_visited,
                                       forward_path, backward_path, level_left,
                                       current_actor_id, cp_vars, result, prev_call>>
  /\ UNCHANGED <<cp_missing, levels>>
  /\ UNCHANGED <<handler, server, population>>

\* for neighbor_actor_id in actor_ids { visit; intersection -> construct_path }
ForwardActor ==
  /\ pc = "fwd_actors"
  /\ IF actor_ids = {}
       THEN /\ pc' = "fwd_movies"
            /\ UNCHANGED <<actor_ids, forward_visited, forward_path, forward_queue,
                           cp_vars>>
       ELSE \E neighbor_actor_id \in actor_ids :
              /\ actor_ids' = actor_ids \ {neighbor_actor_id}
              /\ IF IsNew(neighbor_actor_id, forward_visited)
                   THEN /\ forward_visited' = forward_visited \cup {neighbor_actor_id}
                        /\ forward_path' = MapInsert(forward_path, neighbor_actor_id,
                                                     current_actor_id)
                        /\ forward_queue' = Append(forward_queue, neighbor_actor_id)
                        /\ IF Meets(neighbor_actor_id, backward_visited)
                             THEN EnterConstructPath(neighbor_actor_id)
                             ELSE /\ pc' = pc
                                  /\ UNCHANGED cp_vars
                   ELSE /\ pc' = pc
                        /\ UNCHANGED <<forward_visited, forward_path, forward_queue,
                                       cp_vars>>
  /\ UNCHANGED <<movie_actors, args, backward_queue, backward_visited, backward_path,
                 level_left,
                 current_actor_id, movie_ids, result, queried, store_err, failed_at,
                 cp_missing, levels, prev_call>>
  /\ UNCHANGED <<handler, server, population>>

\* backward level: for _ in 0..backward_level_size { pop_front; get_movie_ids_for_actor(..)? }
BackwardPop ==
  /\ pc = "bwd_for"
  /\ IF level_left = 0
       THEN /\ pc' = "while"
            /\ movie_actors' = movie_actors
            /\ UNCHANGED <<args, level_left, backward_queue, current_actor_id,
                           movie_ids,
                           backward_visited, backward_path, forward_queue,
                           forward_visited, forward_path,
                           actor_ids, cp_vars, result, queried, store_err, failed_at,
                           prev_call>>
       ELSE IF backward_queue = <<>>
       THEN /\ level_left' = level_left - 1
            /\ movie_actors' = movie_actors
            /\ UNCHANGED <<pc, args, backward_queue, current_actor_id, movie_ids,
                           backward_visited, backward_path, forward_queue,
                           forward_visited, forward_path,
                           actor_ids, cp_vars, result, queried, store_err, failed_at,
                           prev_call>>
       ELSE \E r \in get_movie_ids_for_actor(movie_actors, Head(backward_queue)) :
              /\ movie_actors' = Select(movie_actors)
              /\ queried' = TRUE
              /\ store_err' = IF r.ok THEN store_err ELSE r.err
              /\ failed_at' = IF r.ok THEN failed_at ELSE pc
              /\ IF Failed(r)
                   THEN Return(Err(r.err))
                   ELSE /\ pc' = "bwd_movies"
                        /\ level_left' = level_left - 1
                        /\ current_actor_id' = Head(backward_queue)
                        /\ backward_queue' = pop_front(backward_queue)
                        /\ movie_ids' = r.rows
                        /\ UNCHANGED <<args, backward_visited, backward_path,
                                       forward_queue,
                                       forward_visited, forward_path, actor_ids, cp_vars,
                                       result, prev_call>>
  /\ UNCHANGED <<cp_missing, levels>>
  /\ UNCHANGED <<handler, server, population>>

\* for movie_id in movie_ids { get_actor_ids_for_movie(conn, movie_id)? }
BackwardMovie ==
  /\ pc = "bwd_movies"
  /\ IF movie_ids = {}
       THEN /\ pc' = "bwd_for"
            /\ movie_actors' = movie_actors
            /\ UNCHANGED <<args, locals, cp_vars, result, queried, store_err, failed_at,
                           prev_call>>
       ELSE \E movie_id \in movie_ids :
            \E r \in get_actor_ids_for_movie(movie_actors, movie_id) :
              /\ movie_actors' = Select(movie_actors)
              /\ queried' = TRUE
              /\ store_err' = IF r.ok THEN store_err ELSE r.err
              /\ failed_at' = IF r.ok THEN failed_at ELSE pc
              /\ IF Failed(r)
                   THEN Return(Err(r.err))
                   ELSE /\ pc' = "bwd_actors"
                        /\ movie_ids' = movie_ids \ {movie_id}
                        /\ actor_ids' = r.rows
                        /\ UNCHANGED <<args, forward_queue, backward_queue,
                                       forward_visited, backward_visited,
                                       forward_path, backward_path, level_left,
                                       current_actor_id, cp_vars, result, prev_call>>
  /\ UNCHANGED <<cp_missing, levels>>
  /\ UNCHANGED <<handler, server, population>>

\* for neighbor_actor_id in actor_ids { visit; intersection -> construct_path }
BackwardActor ==
  /\ pc = "bwd_actors"
  /\ IF actor_ids = {}
       THEN /\ pc' = "bwd_movies"
            /\ UNCHANGED <<actor_ids, backward_visited, backward_path,
                           backward_queue, cp_vars>>
       ELSE \E neighbor_actor_id \in actor_ids :
              /\ actor_ids' = actor_ids \ {neighbor_actor_id}
              /\ IF IsNew(neighbor_actor_id, backward_visited)
                   THEN /\ backward_visited' = backward_visited \cup {neighbor_actor_id}
                        /\ backward_path' = MapInsert(backward_path, neighbor_actor_id,
                                                     current_actor_id)
                        /\ backward_queue' = Append(backward_queue, neighbor_actor_id)
                        /\ IF Meets(neighbor_actor_id, forward_visited)
                             THEN EnterConstructPath(neighbor_actor_id)
                             ELSE /\ pc' = pc
                                  /\ UNCHANGED cp_vars
                   ELSE /\ pc' = pc
                        /\ UNCHANGED <<backward_visited, backward_path,
                                       backward_queue, cp_vars>>
  /\ UNCHANGED <<movie_actors, args, forward_queue, forward_visited, forward_path,
                 level_left,
                 current_actor_id, movie_ids, result, queried, store_err, failed_at,
                 cp_missing, levels, prev_call>>
  /\ UNCHANGED <<handler, server, population>>

(* -------------------------- path reconstructor ------------------------ *)
\* the backward segment collected with the intersection actor in it
ExtendFromIntersection(p, segment) == p \o <<p[Len(p)]>> \o segment

\* path.extend(backward_path_segment)
Extend(p, segment) == p \o segment

\* while current_id != start_actor_id { forward_path.get(..) } path.reverse()
ConstructForward ==
  /\ pc = "cp_forward"
  /\ IF current_id # start_actor_id
       THEN IF current_id \in DOMAIN forward_path
              THEN /\ current_id' = forward_path[current_id]
                   /\ path' = Append(path, forward_path[current_id])
                   /\ UNCHANGED <<pc, args, locals, intersection_actor_id,
                                  backward_path_segment, result, cp_missing,
                                  prev_call>>
              ELSE /\ Return(OkNone)
                   /\ cp_missing' = TRUE
       ELSE /\ path' = Reverse(path)
            /\ current_id' = intersection_actor_id
            /\ pc' = "cp_backward"
            /\ UNCHANGED <<args, locals, intersection_actor_id,
                           backward_path_segment, result, cp_missing, prev_call>>
  /\ UNCHANGED <<movie_actors, queried, store_err, failed_at, levels>>
  /\ UNCHANGED <<handler, server, population>>

\* while current_id != target_actor_id { backward_path.get(..) } extend; Ok(Some(path))
ConstructBackward ==
  /\ pc = "cp_backward"
  /\ IF current_id # target_actor_id
       THEN IF current_id \in DOMAIN backward_path
              THEN /\ current_id' = backward_path[current_id]
                   /\ backward_path_segment' =
                        Append(backward_path_segment, backward_path[current_id])
                   /\ UNCHANGED <<pc, args, locals, intersection_actor_id, path,
                                  result, cp_missing, prev_call>>
              ELSE /\ Return(OkNone)
                   /\ cp_missing' = TRUE
       ELSE /\ Return(OkSome(Extend(path, backward_path_segment)))
            /\ UNCHANGED cp_missing
  /\ UNCHANGED <<movie_actors, queried, store_err, failed_at, levels>>
  /\ UNCHANGED <<handler, server, population>>

(* ---------------------------- specification --------------------------- *)
\* the handler before a request
NoRequestYet ==
  /\ hpc = "idle"
  /\ request = NoRequest
  /\ start_actor_id_result = NoLookup
  /\ target_actor_id_result = NoLookup
  /\ path_index = 1
  /\ actor_names_path = <<>>
  /\ link_path_details = <<>>
  /\ response = NoResponse

\* the server before a request arrived: Mutex::new(conn)
Unlocked == [locked |-> FALSE, poisoned |-> FALSE]
NotServing ==
  /\ db_conn = Unlocked
  /\ stage = [w \in Requests |-> "pending"]

\* populate_database not called
NoTx == [state |-> "none", movies |-> {}, actors |-> {}, movie_actors |-> {}]
NoTables == [movies |-> {}, actors |-> {}]
PopulateNotCalled ==
  /\ ppc = "idle"
  /\ stream = {}
  /\ batch = <<>>
  /\ batch_index = 1
  /\ tx = NoTx
  /\ populate_result = "none"

\* the movies and actors tables are read here by populate_database alone: the
\* handler reads the rows that process_batch wrote for the links of the store
NotPopulating ==
  /\ PopulateNotCalled
  /\ tables = NoTables

\* the caller before its first call
NotCalled ==
  /\ pc = "idle"
  /\ start_actor_id = NoActor
  /\ target_actor_id = NoActor
  /\ forward_queue = <<>>
  /\ backward_queue = <<>>
  /\ forward_visited = {}
  /\ backward_visited = {}
  /\ forward_path = EmptyMap
  /\ backward_path = EmptyMap
  /\ level_left = 0
  /\ current_actor_id = NoActor
  /\ movie_ids = {}
  /\ actor_ids = {}
  /\ intersection_actor_id = NoActor
  /\ current_id = NoActor
  /\ path = <<>>
  /\ backward_path_segment = <<>>
  /\ result = Pending
  /\ queried = FALSE
  /\ store_err = NoErr
  /\ failed_at = "none"
  /\ cp_missing = FALSE
  /\ forward_levels = 0
  /\ backward_levels = 0
  /\ prev_call = NoCall
  /\ NoRequestYet

Init ==
  /\ movie_actors = {}
  /\ NotCalled
  /\ NotServing
  /\ NotPopulating

Next ==
  \/ insert_movie_actor_link
  \/ Call
  \/ WhileCheck
  \/ ForwardPop
  \/ ForwardMovie
  \/ ForwardActor
  \/ BackwardPop
  \/ BackwardMovie
  \/ BackwardActor
  \/ ConstructForward
  \/ ConstructBackward

Spec == Init /\ [][Next]_vars

\* a series of calls on one store
NextSeries ==
  \/ insert_movie_actor_link
  \/ FirstCall
  \/ Recall
  \/ WhileCheck
  \/ ForwardPop
  \/ ForwardMovie
  \/ ForwardActor
  \/ BackwardPop
  \/ BackwardMovie
  \/ BackwardActor
  \/ ConstructForward
  \/ ConstructBackward

SpecSeries == Init /\ [][NextSeries]_vars

(* the search on a chain of casts: a level holds more than one actor, and *)
(* both sides run a second level                                          *)
\* a cast of three and a cast of two by turns, consecutive casts sharing an
\* actor: movie 2j+1 stars the actors 3j+1, 3j+2, 3j+3 and movie 2j+2 the
\* actors 3j+3, 3j+4
CastList ==
  UNION {{<<2 * j + 1, 3 * j + 1>>, <<2 * j + 1, 3 * j + 2>>, <<2 * j + 1, 3 * j + 3>>,
          <<2 * j + 2, 3 * j + 3>>, <<2 * j + 2, 3 * j + 4>>} :
           j \in 0..((MaxHops - 1) \div 2)}
CastActors == {r[2] : r \in CastList}

\* ingestion kept any rows of the cast list
InitLevels ==
  /\ movie_actors \in SUBSET CastList
  /\ NotCalled
  /\ NotServing
  /\ NotPopulating

\* the caller invokes the search with any two actors of the cast list
CallLevels ==
  /\ pc = "idle"
  /\ \E s \in CastActors, t \in CastActors : Enter(s, t)
  /\ UNCHANGED prev_call
  /\ UNCHANGED <<handler, server, population>>

NextLevels ==
  \/ CallLevels
  \/ WhileCheck
  \/ ForwardPop
  \/ ForwardMovie
  \/ ForwardActor
  \/ BackwardPop
  \/ BackwardMovie
  \/ BackwardActor
  \/ ConstructForward
  \/ ConstructBackward

SpecLevels == InitLevels /\ [][NextLevels]_vars

(* a call that is not held up: the thread of the handler keeps running *)
\* a step of find_actor_link_bidirectional_bfs or of construct_path
Step ==
  \/ WhileCheck
  \/ ForwardPop
  \/ ForwardMovie
  \/ ForwardActor
  \/ BackwardPop
  \/ BackwardMovie
  \/ BackwardActor
  \/ ConstructForward
  \/ ConstructBackward

\* ingestion, then a call from the first actor to any actor
NextLive ==
  \/ insert_movie_actor_link
  \/ FirstCall
  \/ Step

SpecLive == Init /\ [][NextLive]_vars /\ WF_vars(Step)

(* construct_path on its own: any intersection, start, target and parent maps *)
\* HashMap<i64, i64> values of at most MaxEntries entries
ParentMaps ==
  UNION {[D -> Actors] : D \in {D \in SUBSET Actors : Cardinality(D) <= MaxEntries}}

\* the actor n parents up from k, NoActor once an entry is missing
RECURSIVE Climb(_, _, _)
Climb(m, k, n) ==
  IF n = 0 THEN k
  ELSE IF k \in DOMAIN m THEN Climb(m, m[k], n - 1) ELSE NoActor

\* every walk up the map ends: a walk of construct_path on it is finite
Acyclic(m) == \A k \in DOMAIN m : Climb(m, k, Cardinality(DOMAIN m) + 1) = NoActor

\* construct_path(intersection_actor_id, &forward_path, &backward_path, start, target)
InitCP ==
  /\ movie_actors = {}
  /\ start_actor_id \in Actors
  /\ target_actor_id \in Actors
  /\ intersection_actor_id \in Actors
  /\ forward_path \in {m \in ParentMaps : Acyclic(m)}
  /\ backward_path \in {m \in ParentMaps : Acyclic(m)}
  /\ pc = "cp_forward"
  /\ current_id = intersection_actor_id
  /\ path = <<intersection_actor_id>>
  /\ backward_path_segment = <<>>
  /\ forward_queue = <<>>
  /\ backward_queue = <<>>
  /\ forward_visited = {}
  /\ backward_visited = {}
  /\ level_left = 0
  /\ current_actor_id = NoActor
  /\ movie_ids = {}
  /\ actor_ids = {}
  /\ result = Pending
  /\ queried = FALSE
  /\ store_err = NoErr
  /\ failed_at = "none"
  /\ cp_missing = FALSE
  /\ forward_levels = 0
  /\ backward_levels = 0
  /\ prev_call = NoCall
  /\ NoRequestYet
  /\ NotServing
  /\ NotPopulating

NextCP ==
  \/ ConstructForward
  \/ ConstructBackward

SpecCP == InitCP /\ [][NextCP]_vars

(* ------------------------ the projected graph ------------------------- *)
\* the actors the store holds a row of
StoreActors == {r[2] : r \in movie_actors}

\* two actors share a movie of the store
SharesMovie(a, b) ==
  \E r \in movie_actors : r[2] = a /\ <<r[1], b>> \in movie_actors

\* adjacency of the projected graph
Adjacent(a, b) == a # b /\ SharesMovie(a, b)

\* the actors within k hops of a
RECURSIVE Within(_, _)
Within(a, k) ==
  IF k = 0 THEN {a}
  ELSE LET inner == Within(a, k - 1)
       IN inner \cup {b \in StoreActors : \E c \in inner : Adjacent(c, b)}

Connected(a, b) == b \in Within(a, Cardinality(StoreActors))

\* the true shortest hop distance of two connected actors
Dist(a, b) == CHOOSE k \in 0..Cardinality(StoreActors) :
                /\ b \in Within(a, k)
                /\ k > 0 => b \notin Within(a, k - 1)

Returned == pc = "done"
ReturnedPath == pc = "done" /\ result.kind = "Some"
Hops(p) == Len(p) - 1

(* ------------------------------ handler ------------------------------- *)
\* what TMDB calls the people and the movies that ingestion fetched; a name
\* or a title can belong to more than one id (namesakes, remakes)
PersonNames == <<"Ann", "Bob", "Cy">>
MovieTitles == <<"Heat", "Ran">>
ActorName(actor_id) == PersonNames[((actor_id - 1) % Len(PersonNames)) + 1]
MovieTitle(movie_id) == MovieTitles[((movie_id - 1) % Len(MovieTitles)) + 1]

\* the names a request can supply: those of the people, and one nobody has
RequestNames == {PersonNames[k] : k \in 1..Len(PersonNames)} \cup {"Dee"}

\* rows of the actors and of the movies table: process_batch inserts the row
\* of the movie and the row of the actor before the row that links them
actors(conn) == {<<actor_id, ActorName(actor_id)>> : actor_id \in {r[2] : r \in conn}}
movies(conn) == {<<movie_id, MovieTitle(movie_id)>> : movie_id \in {r[1] : r \in conn}}

\* Result<Option<T>> of a point lookup: the first row the query yields, none,
\* or the error of prepare/query/next/get
OptionResults(rows, none) ==
  {[ok |-> TRUE, some |-> TRUE, val |-> v, err |-> NoErr] : v \in rows}
    \cup (IF rows = {}
            THEN {[ok |-> TRUE, some |-> FALSE, val |-> none, err |-> NoErr]}
            ELSE {})
    \cup {[ok |-> FALSE, some |-> FALSE, val |-> none, err |-> e] : e \in StoreErrors}

\* SELECT actor_id FROM actors WHERE name = ?
get_actor_id_by_name(conn, actor_name) ==
  OptionResults({r[1] : r \in {q \in actors(conn) : q[2] = actor_name}}, NoActor)

\* SELECT name FROM actors WHERE actor_id = ?
get_actor_name_by_id(conn, actor_id) ==
  OptionResults({r[2] : r \in {q \in actors(conn) : q[1] = actor_id}}, "")

\* SELECT title FROM movies WHERE movie_id = ?, for each id: the ids that have
\* a row, each with its title
get_movie_titles_by_ids(conn, ids) ==
  {[ok |-> TRUE,
    map |-> [movie_id \in {k \in ids : \E r \in movies(conn) : r[1] = k}
               |-> MovieTitle(movie_id)],
    err |-> NoErr]}
    \cup {[ok |-> FALSE, map |-> <<>>, err |-> e] : e \in StoreErrors}

\* the orders in which a HashMap yields its keys
Orderings(S) ==
  {f \in [1..Cardinality(S) -> S] : \A x \in S : \E k \in 1..Cardinality(S) : f[k] = x}

\* connecting_movies_map.values() joined with ", ": the titles in one of the
\* orders of the map
Join(map) == {[k \in 1..Len(ord) |-> map[ord[k]]] : ord \in Orderings(DOMAIN map)}

\* current_actor_movies.intersection(&next_actor_movies)
connecting_movie_ids(current_actor_movies, next_actor_movies) ==
  current_actor_movies \cap next_actor_movies

\* path_ids.len() - 1
LinkNumber(path_ids) == Len(path_ids) - 1

\* HttpResponse::Ok, ::NotFound, ::InternalServerError with the JSON body
HttpOk(names, links, number, error) ==
  [status |-> "200 OK", path |-> names, link_path |-> links,
   link_number |-> number, error |-> error]
HttpNotFound(error) ==
  [status |-> "404 Not Found", path |-> None, link_path |-> None,
   link_number |-> None, error |-> Some(error)]
HttpInternalServerError(error) ==
  [status |-> "500 Internal Server Error", path |-> None, link_path |-> None,
   link_number |-> None, error |-> Some(error)]

engine == <<movie_actors, pc, args, locals, cp_vars, result, queried, store_err,
            failed_at, cp_missing, levels, prev_call>>

\* the arm of `match (start_actor_id_result, target_actor_id_result)` taken
MatchArm(rs, rt) ==
  IF rs.ok /\ rs.some /\ rt.ok /\ rt.some THEN "search"
  ELSE IF ~rs.ok \/ ~rt.ok THEN "error"
  ELSE "not found"

\* get_actor_link up to the match: both names are looked up, then the search
\* is called or the request is answered
Request ==
  /\ hpc = "idle"
  /\ pc = "idle"
  /\ \E start_actor_name \in RequestNames, target_actor_name \in RequestNames :
     \E rs \in get_actor_id_by_name(movie_actors, start_actor_name),
        rt \in get_actor_id_by_name(movie_actors, target_actor_name) :
       /\ request' = [start_actor_name |-> start_actor_name,
                      target_actor_name |-> target_actor_name]
       /\ start_actor_id_result' = rs
       /\ target_actor_id_result' = rt
       /\ IF MatchArm(rs, rt) = "search"
            THEN /\ Enter(rs.val, rt.val)
                 /\ hpc' = "search"
                 /\ response' = NoResponse
            ELSE /\ hpc' = "responded"
                 /\ response' =
                      IF MatchArm(rs, rt) = "error"
                        THEN HttpInternalServerError("Database error when fetching actor ID")
                        ELSE HttpNotFound("Actor not found in database")
                 /\ UNCHANGED <<movie_actors, pc, args, locals, cp_vars, result,
                                queried, store_err, failed_at, cp_missing, levels>>
  /\ UNCHANGED <<prev_call, path_index, actor_names_path, link_path_details>>
  /\ UNCHANGED <<server, population>>

\* the search returned Err(e) or Ok(None)
AnswerNoPath ==
  /\ hpc = "search"
  /\ pc = "done"
  /\ result.kind \in {"Err", "None"}
  /\ hpc' = "responded"
  /\ response' = IF result.kind = "Err"
                   THEN HttpInternalServerError("Error finding actor link")
                   ELSE HttpOk(None, None, None, Some("No link found"))
  /\ UNCHANGED <<engine, request, start_actor_id_result, target_actor_id_result,
                 path_index, actor_names_path, link_path_details>>
  /\ UNCHANGED <<server, population>>

\* a Result or an Option unwrapped where it is an Err or a None: the handler
\* panics and sends no response
Panic ==
  /\ hpc' = "panicked"
  /\ response' = NoResponse
  /\ UNCHANGED <<path_index, actor_names_path, link_path_details>>

\* if path_ids.len() == 1 { get_actor_name_by_id(..).unwrap().unwrap() .. }
AnswerSingle ==
  /\ hpc = "search"
  /\ pc = "done"
  /\ result.kind = "Some"
  /\ Len(result.path) = 1
  /\ \E name \in get_actor_name_by_id(movie_actors, result.path[1]) :
       IF name.ok /\ name.some
         THEN /\ hpc' = "responded"
              /\ response' = HttpOk(Some(<<name.val>>), Some(<<>>), Some(0), None)
              /\ UNCHANGED <<path_index, actor_names_path, link_path_details>>
         ELSE Panic
  /\ UNCHANGED <<engine, request, start_actor_id_result, target_actor_id_result>>
  /\ UNCHANGED <<server, population>>

\* actor_names_path.push(..); link_path_details.push(..), and after the last
\* pass of the loop HttpResponse::Ok with the path, its links and their number
Push(actor_name, links) ==
  /\ actor_names_path' = Append(actor_names_path, actor_name)
  /\ link_path_details' = link_path_details \o links
  /\ IF path_index = Len(result.path)
       THEN /\ hpc' = "responded"
            /\ response' = HttpOk(Some(Append(actor_names_path, actor_name)),
                                  Some(link_path_details \o links),
                                  Some(LinkNumber(result.path)), None)
            /\ UNCHANGED path_index
       ELSE /\ path_index' = path_index + 1
            /\ UNCHANGED <<hpc, response>>

\* one pass of `for i in 0..path_ids.len()`: the name of the actor and, from
\* the second actor on, the movies that link it to the actor before it; every
\* query result is unwrapped
PresentActor ==
  /\ hpc = "search"
  /\ pc = "done"
  /\ result.kind = "Some"
  /\ Len(result.path) > 1
  /\ LET path_ids == result.path
         actor_id == path_ids[path_index]
     IN \E actor_name \in get_actor_name_by_id(movie_actors, actor_id) :
          IF ~(actor_name.ok /\ actor_name.some) THEN Panic
          ELSE IF path_index = 1 THEN Push(actor_name.val, <<>>)
          ELSE
            LET prev_actor_id == path_ids[path_index - 1]
                next_actor_id == path_ids[path_index]
            IN \E current_actor_movies \in
                    get_movie_ids_for_actor(movie_actors, prev_actor_id),
                  next_actor_movies \in
                    get_movie_ids_for_actor(movie_actors, next_actor_id) :
                 IF ~(current_actor_movies.ok /\ next_actor_movies.ok) THEN Panic
                 ELSE
                   \E connecting_movies_map \in
                        get_movie_titles_by_ids(movie_actors,
                          connecting_movie_ids(current_actor_movies.rows,
                                               next_actor_movies.rows)) :
                     IF ~connecting_movies_map.ok THEN Panic
                     ELSE
                       \E movie_titles_string \in Join(connecting_movies_map.map),
                          prev_actor_name \in
                            get_actor_name_by_id(movie_actors, prev_actor_id),
                          next_actor_name \in
                            get_actor_name_by_id(movie_actors, next_actor_id) :
                         IF ~(prev_actor_name.ok /\ prev_actor_name.some
                                /\ next_actor_name.ok /\ next_actor_name.some)
                           THEN Panic
                           ELSE Push(actor_name.val,
                                     <<<<prev_actor_name.val, movie_titles_string,
                                         next_actor_name.val>>>>)
  /\ UNCHANGED <<engine, request, start_actor_id_result, target_actor_id_result>>
  /\ UNCHANGED <<server, population>>

\* ingestion, then one request served to its response
NextHandler ==
  \/ insert_movie_actor_link
  \/ Request
  \/ Step
  \/ AnswerNoPath
  \/ AnswerSingle
  \/ PresentActor

SpecHandler == Init /\ [][NextHandler]_vars

(* ------------------------------- server ------------------------------- *)
\* the stores the server is run on: two movies and three actors
ServedList == {<<1, 1>>, <<1, 2>>, <<2, 2>>, <<2, 3>>}

InitServer ==
  /\ movie_actors \in SUBSET ServedList
  /\ NotCalled
  /\ NotServing
  /\ NotPopulating

\* the lock granted whoever holds it
FreeAlways(mutex) == TRUE

\* Mutex::lock blocks the calling thread until the mutex is not held
Free(mutex) == ~mutex.locked

Locked == \E w \in Requests : stage[w] = "locked"

\* let conn_mutex = db_conn.lock().unwrap(): the guard, or a panic on the
\* PoisonError of a mutex whose guard was dropped by a panicking thread
Lock(w) ==
  /\ stage[w] = "pending"
  /\ Free(db_conn)
  /\ IF db_conn.poisoned
       THEN /\ stage' = [stage EXCEPT ![w] = "refused"]
            /\ UNCHANGED db_conn
       ELSE /\ stage' = [stage EXCEPT ![w] = "locked"]
            /\ db_conn' = [db_conn EXCEPT !.locked = TRUE]
  /\ UNCHANGED <<engine, handler, population>>

\* the request that holds the guard goes on to look up the two names
Serve == Locked /\ Request

\* the handler returns its response or unwinds from a panic: its locals are
\* dropped, the guard among them, and a guard dropped while panicking poisons
\* the mutex
Finish(w) ==
  /\ stage[w] = "locked"
  /\ hpc \in {"responded", "panicked"}
  /\ stage' = [stage EXCEPT ![w] = hpc]
  /\ db_conn' = [locked |-> FALSE,
                 poisoned |-> db_conn.poisoned \/ hpc = "panicked"]
  /\ hpc' = "idle"
  /\ request' = NoRequest
  /\ start_actor_id_result' = NoLookup
  /\ target_actor_id_result' = NoLookup
  /\ path_index' = 1
  /\ actor_names_path' = <<>>
  /\ link_path_details' = <<>>
  /\ response' = NoResponse
  /\ pc' = "idle"
  /\ start_actor_id' = NoActor
  /\ target_actor_id' = NoActor
  /\ forward_queue' = <<>>
  /\ backward_queue' = <<>>
  /\ forward_visited' = {}
  /\ backward_visited' = {}
  /\ forward_path' = EmptyMap
  /\ backward_path' = EmptyMap
  /\ level_left' = 0
  /\ current_actor_id' = NoActor
  /\ movie_ids' = {}
  /\ actor_ids' = {}
  /\ intersection_actor_id' = NoActor
  /\ current_id' = NoActor
  /\ path' = <<>>
  /\ backward_path_segment' = <<>>
  /\ result' = Pending
  /\ queried' = FALSE
  /\ store_err' = NoErr
  /\ failed_at' = "none"
  /\ cp_missing' = FALSE
  /\ forward_levels' = 0
  /\ backward_levels' = 0
  /\ UNCHANGED <<movie_actors, prev_call, population>>

\* requests arrive at any time and are served on one shared connection
NextServer ==
  \/ \E w \in Requests : Lock(w)
  \/ Serve
  \/ Step
  \/ AnswerNoPath
  \/ AnswerSingle
  \/ PresentActor
  \/ \E w \in Requests : Finish(w)

SpecServer == InitServer /\ [][NextServer]_vars

(* ------------------------------ ingestion ----------------------------- *)
\* the casts a credits answer can list: TMDB person ids in the order listed
CastLists == {<<>>, <<1>>, <<2, 1>>, <<2, 3>>}

\* the store a run of populate_database finds: no rows, or the rows an earlier
\* run committed for a movie outside the catalogue range of this one
PriorMovie == MaxCatalog + 1
NoRows == [movies |-> {}, actors |-> {}, movie_actors |-> {}]
PriorRows == [movies |-> {<<1, PriorMovie, MovieTitle(PriorMovie)>>},
              actors |-> {<<1, 1, ActorName(1)>>},
              movie_actors |-> {<<1, 1>>}]

\* INTEGER PRIMARY KEY AUTOINCREMENT of a table no row is deleted from
NextId(rows) == Cardinality(rows) + 1

\* INSERT OR IGNORE INTO movies (tmdb_movie_id, title): tmdb_movie_id is UNIQUE
insert_movie(rows, tmdb_movie_id, title) ==
  IF \E r \in rows : r[2] = tmdb_movie_id
    THEN rows
    ELSE rows \cup {<<NextId(rows), tmdb_movie_id, title>>}

\* INSERT OR IGNORE INTO actors (tmdb_actor_id, name, ..): tmdb_actor_id is UNIQUE
insert_actor(rows, tmdb_actor_id, name) ==
  IF \E r \in rows : r[2] = tmdb_actor_id
    THEN rows
    ELSE rows \cup {<<NextId(rows), tmdb_actor_id, name>>}

\* SELECT movie_id FROM movies WHERE tmdb_movie_id = ?, and the same of actors
RowId(rows, tmdb_id) == (CHOOSE r \in rows : r[2] = tmdb_id)[1]

\* the rows a reader on another connection sees
Visible == [movies |-> tables.movies, actors |-> tables.actors,
            movie_actors |-> movie_actors]

\* the rows the transaction sees: those it found and those it wrote
View(t) == [movies |-> t.movies, actors |-> t.actors,
            movie_actors |-> t.movie_actors]

\* db::insert_movie(tx, *movie_tmdb_id, &movie_details.title)
WriteMovie(t, movie_tmdb_id) ==
  [t EXCEPT !.movies = insert_movie(@, movie_tmdb_id, MovieTitle(movie_tmdb_id))]

\* for actor in &movie_credits.cast { insert_actor; SELECT actor_id;
\* insert_movie_actor_link }, the first k passes of it
RECURSIVE WriteCast(_, _, _, _)
WriteCast(t, movie_id, cast, k) ==
  IF k = 0 THEN t
  ELSE LET before == WriteCast(t, movie_id, cast, k - 1)
           actor == cast[k]
           written == insert_actor(before.actors, actor, ActorName(actor))
           actor_id == RowId(written, actor)
       IN [before EXCEPT !.actors = written,
                         !.movie_actors = @ \cup {<<movie_id, actor_id>>}]

\* one pass of `for (movie_tmdb_id, movie_credits) in batch`, up to the k-th
\* member of the cast; k < 0: up to insert_movie, which wrote nothing
WriteEntry(t, entry, k) ==
  IF k < 0 THEN t
  ELSE LET with_movie == WriteMovie(t, entry[1])
       IN WriteCast(with_movie, RowId(with_movie.movies, entry[1]), entry[2], k)

\* a transaction that commits what it wrote when it goes out of scope
CommitOnDrop(visible, t) == View(t)

\* a Transaction dropped without commit rolls back (DropBehavior::Rollback)
Rollback(visible, t) == visible

SetVisible(rows) ==
  /\ tables' = [movies |-> rows.movies, actors |-> rows.actors]
  /\ movie_actors' = rows.movie_actors

serving == <<pc, args, locals, cp_vars, result, queried, store_err, failed_at,
             cp_missing, levels, prev_call, handler, server>>

\* `?` on an Err: populate_database returns it, and tx goes out of scope with
\* the rows t it had written
Fail(error, t) ==
  /\ SetVisible(Rollback(Visible, t))
  /\ tx' = [NoTx EXCEPT !.state = "rolled back"]
  /\ populate_result' = error
  /\ ppc' = "done"
  /\ UNCHANGED <<stream, batch, batch_index>>

\* populate_database up to the stream: the connection, the tables and
\* conn.transaction(), each of which can fail
Populate ==
  /\ ppc = "idle"
  /\ pc = "idle"
  /\ hpc = "idle"
  /\ \E ok \in BOOLEAN :
       IF ok
         THEN /\ tx' = [state |-> "open", movies |-> tables.movies,
                        actors |-> tables.actors, movie_actors |-> movie_actors]
              /\ stream' = Catalog
              /\ ppc' = "stream"
              /\ UNCHANGED <<batch, batch_index, tables, movie_actors,
                             populate_result>>
         ELSE /\ populate_result' = "Err(store)"
              /\ ppc' = "done"
              /\ UNCHANGED <<stream, batch, batch_index, tx, tables, movie_actors>>
  /\ UNCHANGED serving

\* while let Some(result) = stream.next().await: the movies complete in any
\* order (buffer_unordered); a movie that does not exist, is no feature film
\* or could not be fetched yields None and is passed over, any other is
\* pushed on the batch
StreamNext ==
  /\ ppc = "stream"
  /\ IF stream = {}
       THEN /\ ppc' = IF batch = <<>> THEN "commit" ELSE "rest"
            /\ batch_index' = 1
            /\ UNCHANGED <<stream, batch>>
       ELSE \E movie_tmdb_id \in stream :
            \E res \in {None} \cup {Some(<<movie_tmdb_id, cast>>) : cast \in CastLists} :
              /\ stream' = stream \ {movie_tmdb_id}
              /\ batch_index' = 1
              /\ IF res = None
                   THEN UNCHANGED <<batch, ppc>>
                   ELSE /\ batch' = Append(batch, res[1])
                        /\ ppc' = IF Len(batch) + 1 >= BatchSize
                                    THEN "batch" ELSE "stream"
  /\ UNCHANGED <<tx, tables, movie_actors, populate_result>>
  /\ UNCHANGED serving

\* process_batch, one entry of the batch at a time: get_movie_details can fail
\* to fetch, and every statement on the transaction can fail; after the last
\* entry the full batch is cleared, the remaining one leads on to the commit
ProcessMovie ==
  /\ ppc \in {"batch", "rest"}
  /\ IF batch_index > Len(batch)
       THEN /\ ppc' = IF ppc = "batch" THEN "stream" ELSE "commit"
            /\ batch' = IF ppc = "batch" THEN <<>> ELSE batch
            /\ batch_index' = 1
            /\ UNCHANGED <<stream, tx, tables, movie_actors, populate_result>>
       ELSE LET entry == batch[batch_index]
            IN \E outcome \in {"ok", "fetch", "store"} :
                 IF outcome = "ok"
                   THEN /\ tx' = WriteEntry(tx, entry, Len(entry[2]))
                        /\ batch_index' = batch_index + 1
                        /\ UNCHANGED <<ppc, stream, batch, tables, movie_actors,
                                       populate_result>>
                 ELSE IF outcome = "fetch"
                   THEN Fail("Err(fetch)", tx)
                   ELSE \E k \in -1..(Len(entry[2]) - 1) :
                          Fail("Err(store)", WriteEntry(tx, entry, k))
  /\ UNCHANGED serving

\* tx.commit()?
Commit ==
  /\ ppc = "commit"
  /\ \E ok \in BOOLEAN :
       IF ok
         THEN /\ SetVisible(View(tx))
              /\ tx' = [tx EXCEPT !.state = "committed"]
              /\ populate_result' = "Ok"
              /\ ppc' = "done"
              /\ UNCHANGED <<stream, batch, batch_index>>
         ELSE Fail("Err(store)", tx)
  /\ UNCHANGED serving

InitPopulate ==
  /\ \E rows \in {NoRows, PriorRows} :
       /\ movie_actors = rows.movie_actors
       /\ tables = [movies |-> rows.movies, actors |-> rows.actors]
  /\ NotCalled
  /\ NotServing
  /\ PopulateNotCalled

NextPopulate ==
  \/ Populate
  \/ StreamNext
  \/ ProcessMovie
  \/ Commit

SpecPopulate == InitPopulate /\ [][NextPopulate]_vars

(* ------------------------------ claims -------------------------------- *)
\* C1: for distinct start and target that are connected in the projected graph,
\* a call in which no store query fails returns a path whose hop count is the
\* true shortest hop distance, whatever the enumeration order.
C1_ShortestPath ==
  (Returned /\ start_actor_id # target_actor_id /\ result.kind # "Err"
     /\ Connected(start_actor_id, target_actor_id))
  => /\ result.kind = "Some"
     /\ Hops(result.path) = Dist(start_actor_id, target_actor_id)

\* a three-hop path was returned: both sides explored a level before they met
C1_Witness == ReturnedPath /\ Hops(result.path) = 3

\* C2: every two consecutive actors of a returned path share a movie of the
\* store, the hop that joins the forward and the backward segment included.
C2_HopsAreEdges ==
  ReturnedPath =>
    \A i \in 1..(Len(result.path) - 1) :
      SharesMovie(result.path[i], result.path[i + 1])

\* a returned path with a forward segment, the join and a backward segment
C2_Witness ==
  /\ ReturnedPath
  /\ Len(result.path) = 4
  /\ ~SharesMovie(result.path[1], result.path[3])

\* C3: a returned path is non-empty, starts at start, ends at target and holds
\* no actor twice.
C3_PathShape ==
  ReturnedPath =>
    /\ Len(result.path) >= 1
    /\ result.path[1] = start_actor_id
    /\ result.path[Len(result.path)] = target_actor_id
    /\ \A i, j \in 1..Len(result.path) : i # j => result.path[i] # result.path[j]

\* a returned path through an intersection that is neither start nor target
C3_Witness ==
  /\ ReturnedPath
  /\ Len(result.path) = 3
  /\ start_actor_id # target_actor_id

\* C4: for distinct start and target that no chain of shared movies connects
\* (an actor without rows included), a call in which no store query fails
\* returns Ok(None).
C4_NotFound ==
  (Returned /\ start_actor_id # target_actor_id /\ store_err = NoErr
     /\ ~Connected(start_actor_id, target_actor_id))
  => result = OkNone

\* a search that explored a component of two or more actors and found no path,
\* with a target that has no row in the store
C4_Witness ==
  /\ Returned
  /\ result = OkNone
  /\ queried
  /\ \E a \in Actors : Adjacent(start_actor_id, a)
  /\ \A m \in Movies : <<m, target_actor_id>> \notin movie_actors

\* C5: a call with start = target returns the path of that one actor, with no
\* store query issued and no store failure in the call.
C5_SameActor ==
  (Returned /\ start_actor_id = target_actor_id)
  => /\ result = OkSome(<<start_actor_id>>)
     /\ ~queried
     /\ store_err = NoErr

\* start = target for an actor without a row in a store that is not empty
C5_Witness ==
  /\ Returned
  /\ start_actor_id = target_actor_id
  /\ movie_actors # {}
  /\ \A m \in Movies : <<m, start_actor_id>> \notin movie_actors

\* C6: once a store query of a call has failed, the call is over and its value
\* is that error; an error value is always the error the store raised.
C6_ErrorPropagates ==
  /\ store_err # NoErr => (pc = "done" /\ result = Err(store_err))
  /\ result.kind = "Err" => (result.err = store_err /\ store_err \in StoreErrors)

\* the cast query of a movie failed in a backward level, after the forward
\* level of the call had run its queries
C6_Witness ==
  /\ Returned
  /\ result = Err("corrupt")
  /\ failed_at = "bwd_movies"

\* C7: when a parent-map lookup of construct_path finds no entry, in the walk
\* toward start or in the walk toward target, the value returned is an error,
\* which a caller can tell from Ok(None), the value of a search without a path.
C7_MissingEntryIsError ==
  (Returned /\ cp_missing) => result.kind = "Err"

\* the call that just returned Ok and the noted earlier call
Noted == Returned /\ result.kind # "Err" /\ prev_call # NoCall
SameOutcome == prev_call.kind = result.kind /\ prev_call.len = Len(result.path)

\* C8: on one store, a call for (a, b) and a call for (b, a) that both return
\* Ok have the same kind of outcome and, when paths, the same length, under
\* every enumeration order of either call.
C8_Symmetry ==
  (Noted /\ prev_call.s = target_actor_id /\ prev_call.t = start_actor_id)
  => SameOutcome

\* a path of three hops was found from b to a after one from a to b
C8_Witness ==
  /\ Noted
  /\ start_actor_id # target_actor_id
  /\ prev_call.s = target_actor_id
  /\ prev_call.t = start_actor_id
  /\ prev_call.kind = "Some"
  /\ Hops(result.path) = 3

\* C9: on one store, two calls with the same arguments that both return Ok
\* have the same kind of outcome and, when paths, the same length, under
\* every enumeration order of either call and whatever calls came between.
C9_Idempotence ==
  (Noted /\ prev_call.s = start_actor_id /\ prev_call.t = target_actor_id)
  => SameOutcome

\* the same two-hop search ran twice on a store that offers two middle actors
C9_Witness ==
  /\ Noted
  /\ prev_call.s = start_actor_id
  /\ prev_call.t = target_actor_id
  /\ prev_call.kind = "Some"
  /\ Hops(result.path) = 2
  /\ \E a, b \in Actors \ {start_actor_id, target_actor_id} :
       /\ a # b
       /\ Adjacent(start_actor_id, a) /\ Adjacent(a, target_actor_id)
       /\ Adjacent(start_actor_id, b) /\ Adjacent(b, target_actor_id)

\* C10: no step of a call changes the store.
C10_StoreUnchanged ==
  [][(pc # "idle" \/ pc' # "idle") => movie_actors' = movie_actors]_vars

\* calls of each outcome have returned on a store with rows
C10_Witness ==
  /\ Returned
  /\ queried
  /\ movie_actors # {}

(* ------------------------- the search in flight ----------------------- *)
ForwardLevel == pc \in {"fwd_for", "fwd_movies", "fwd_actors"}
BackwardLevel == pc \in {"bwd_for", "bwd_movies", "bwd_actors"}
InLoop == pc = "while" \/ ForwardLevel \/ BackwardLevel
InConstructPath == pc \in {"cp_forward", "cp_backward"}

Range(q) == {q[i] : i \in 1..Len(q)}

\* the actors at hop distance exactly k from a
Sphere(a, k) == IF k = 0 THEN {a} ELSE Within(a, k) \ Within(a, k - 1)

\* the part of a queue the running level still dequeues, and the part behind it
Waiting(q) == {q[i] : i \in 1..(IF level_left < Len(q) THEN level_left ELSE Len(q))}
Arrived(q) == {q[i] : i \in (level_left + 1)..Len(q)}

\* C12: a level dequeues the actors that were queued when it began and none
\* that it enqueued itself: when outer iteration k starts, the forward queue
\* holds exactly the actors at hop distance k-1 from the start and the backward
\* queue exactly those at hop distance k-1 from the target; inside level k the
\* actors still to dequeue and the one dequeued are at distance k-1, the ones
\* enqueued meanwhile at distance k.
C12_LevelSynchronised ==
  /\ pc = "while" =>
       /\ forward_levels = backward_levels
       /\ Range(forward_queue) = Sphere(start_actor_id, forward_levels)
       /\ Range(backward_queue) = Sphere(target_actor_id, backward_levels)
  /\ ForwardLevel =>
       /\ forward_levels = backward_levels + 1
       /\ Waiting(forward_queue) \subseteq Sphere(start_actor_id, forward_levels - 1)
       /\ Arrived(forward_queue) \subseteq Sphere(start_actor_id, forward_levels)
       /\ pc # "fwd_for" =>
            current_actor_id \in Sphere(start_actor_id, forward_levels - 1)
       /\ Range(backward_queue) = Sphere(target_actor_id, backward_levels)
  /\ BackwardLevel =>
       /\ forward_levels = backward_levels
       /\ Waiting(backward_queue) \subseteq Sphere(target_actor_id, backward_levels - 1)
       /\ Arrived(backward_queue) \subseteq Sphere(target_actor_id, backward_levels)
       /\ pc # "bwd_for" =>
            current_actor_id \in Sphere(target_actor_id, backward_levels - 1)
       /\ Range(forward_queue) = Sphere(start_actor_id, forward_levels)

\* the second forward level dequeued one of its two actors, which enqueued an
\* actor of the next level; the other of the two still waits
C12_Witness ==
  /\ pc = "fwd_actors"
  /\ forward_levels = 2
  /\ level_left = 1
  /\ Len(forward_queue) = 2

\* C13: when a level records a neighbor that the other side has visited, that
\* very step enters construct_path with the neighbor as intersection; from then
\* on nothing is dequeued, enqueued or visited, no query runs or fails, the
\* intersection stays, and the call returns a path through it.
C13_StopsAtFirstIntersection ==
  [][/\ (InLoop /\ forward_visited' \cap backward_visited' # {}) =>
          /\ pc' = "cp_forward"
          /\ forward_visited' \cap backward_visited' = {intersection_actor_id'}
          /\ intersection_actor_id' \in actor_ids \ actor_ids'
          /\ intersection_actor_id' \notin forward_visited \cap backward_visited
     /\ InConstructPath =>
          /\ pc' \in {"cp_forward", "cp_backward", "done"}
          /\ store_err' = store_err
          /\ pc' # "done" => /\ UNCHANGED locals
                              /\ intersection_actor_id' = intersection_actor_id
          /\ pc' = "done" => /\ result'.kind = "Some"
                              /\ intersection_actor_id \in Range(result'.path)
    ]_vars

\* the search stopped in the middle of a cast and of a movie list, with an
\* actor left in the queue, and the walk to the target is under way
C13_Witness ==
  /\ pc = "cp_backward"
  /\ actor_ids # {}
  /\ movie_ids # {}
  /\ forward_queue # <<>>
  /\ backward_path_segment # <<>>

\* C14 as stated: with start # target, in every state of the search no actor
\* is a member of both visited sets.
C14_AlwaysDisjoint ==
  (InLoop \/ InConstructPath) => forward_visited \cap backward_visited = {}

\* C14: with start # target the visited sets start as {start} and {target} and
\* stay disjoint as long as the loop runs; the step that detects the
\* intersection has inserted it into the second set before it tests the first,
\* so that while construct_path runs the two sets share exactly the
\* intersection actor.
C14_DisjointUntilDetection ==
  /\ (pc = "while" /\ forward_levels = 0) =>
       /\ start_actor_id # target_actor_id
       /\ forward_visited = {start_actor_id}
       /\ backward_visited = {target_actor_id}
  /\ InLoop => forward_visited \cap backward_visited = {}
  /\ InConstructPath =>
       forward_visited \cap backward_visited = {intersection_actor_id}

\* both sides visited actors beyond their own end, disjointly, and the
\* intersection was just detected: it is the one actor in both sets
C14_Witness ==
  /\ pc = "cp_forward"
  /\ Cardinality(forward_visited) >= 3
  /\ Cardinality(backward_visited) >= 2
  /\ forward_visited \cap backward_visited = {intersection_actor_id}

\* the entries of a parent map lead away from the end its search began at
ParentsOk(parents, origin) ==
  /\ origin \notin DOMAIN parents
  /\ \A n \in DOMAIN parents :
       /\ parents[n] # n
       /\ SharesMovie(n, parents[n])

\* C15: in every state of a search no actor is its own parent in forward_path
\* or backward_path, although every dequeued actor meets itself in the cast of
\* each of its movies; the start is no key of forward_path, the target no key
\* of backward_path, and every actor shares a movie with its recorded parent.
C15_ParentMaps ==
  /\ ParentsOk(forward_path, start_actor_id)
  /\ ParentsOk(backward_path, target_actor_id)

\* both maps hold entries, and the backward level has just passed over the
\* dequeued actor in the cast of its own movie
C15_Witness ==
  /\ pc = "bwd_actors"
  /\ DOMAIN forward_path # {}
  /\ DOMAIN backward_path # {}
  /\ actor_ids # {}
  /\ current_actor_id \notin actor_ids

\* the numbers of parent steps that lead from n to the end a search began at
DepthsOf(parents, n, origin) ==
  {d \in 0..Cardinality(DOMAIN parents) : Climb(parents, n, d) = origin}

\* C16: when an intersection is detected, its depth in the forward search and
\* its depth in the backward search differ by at most one, the forward side
\* being the one ahead; each depth is the number of levels its side had begun
\* when it visited the actor, and the sides are never more than a level apart.
C16_EqualDepth ==
  /\ (InLoop \/ InConstructPath) => forward_levels - backward_levels \in {0, 1}
  /\ InConstructPath =>
       /\ DepthsOf(forward_path, intersection_actor_id, start_actor_id) # {}
       /\ DepthsOf(backward_path, intersection_actor_id, target_actor_id) # {}
       /\ \A df \in DepthsOf(forward_path, intersection_actor_id, start_actor_id),
             db \in DepthsOf(backward_path, intersection_actor_id, target_actor_id) :
            /\ df - db \in {0, 1}
            /\ df <= forward_levels
            /\ db <= backward_levels

\* an intersection detected by the second backward level, two parent steps
\* from either end
C16_Witness ==
  /\ pc = "cp_forward"
  /\ 2 \in DepthsOf(forward_path, intersection_actor_id, start_actor_id)
  /\ 2 \in DepthsOf(backward_path, intersection_actor_id, target_actor_id)

\* the levels begun so far are within ceil(d/2) on either side
LevelsWithin ==
  LET d == Dist(start_actor_id, target_actor_id)
  IN /\ forward_levels <= (d + 1) \div 2
     /\ backward_levels <= (d + 1) \div 2

\* ceil(d/2) forward and floor(d/2) backward levels were begun
LevelsExact ==
  LET d == Dist(start_actor_id, target_actor_id)
  IN /\ forward_levels = (d + 1) \div 2
     /\ backward_levels = d \div 2

\* C17: for connected distinct start and target at shortest hop distance d, a
\* call begins at most ceil(d/2) forward levels and at most ceil(d/2) backward
\* levels, however it ends, and a call that returns a path has begun exactly
\* ceil(d/2) forward and floor(d/2) backward levels.  The counts change only on
\* the steps into the head of a level loop, so they are read there and at the
\* return.
C17_LevelsBounded ==
  (pc \in {"fwd_for", "bwd_for", "done"}
     /\ start_actor_id # target_actor_id
     /\ Connected(start_actor_id, target_actor_id))
  => /\ LevelsWithin
     /\ ReturnedPath => LevelsExact

\* a path of four hops returned after two levels of either side
C17_Witness ==
  /\ ReturnedPath
  /\ Hops(result.path) = 4
  /\ forward_levels = 2
  /\ backward_levels = 2

\* C20: the keys of forward_path are the actors of forward_visited but the
\* start, the keys of backward_path those of backward_visited but the target;
\* when the engine calls construct_path the parent steps from the intersection
\* lead to the start in one map and to the target in the other, and no lookup
\* of either walk ever finds an entry missing.
C20_WalksSucceed ==
  /\ ~cp_missing
  /\ (InLoop \/ InConstructPath) =>
       /\ DOMAIN forward_path = forward_visited \ {start_actor_id}
       /\ DOMAIN backward_path = backward_visited \ {target_actor_id}
  /\ InConstructPath =>
       /\ DepthsOf(forward_path, intersection_actor_id, start_actor_id) # {}
       /\ DepthsOf(backward_path, intersection_actor_id, target_actor_id) # {}
       /\ current_id \in
            IF pc = "cp_forward" THEN forward_visited ELSE backward_visited

\* both walks took a parent step: two up to the start, one so far towards the
\* target
C20_Witness ==
  /\ pc = "cp_backward"
  /\ Len(path) = 3
  /\ Len(backward_path_segment) = 1
  /\ current_id = target_actor_id

\* a bound on the size of either visited set, and a base no part of the
\* measure reaches
MostVisited == Cardinality(StoreActors) + 2
Base == 2 * MostVisited + Cardinality(movie_actors) + 10

\* where the call stands in an outer iteration, counted down: a level loop
\* with passes left, the test of the loop, a level loop with none left
Phase ==
  CASE pc = "fwd_actors" -> 8
    [] pc = "fwd_movies" -> 7
    [] pc = "bwd_actors" -> 6
    [] pc = "bwd_movies" -> 5
    [] pc = "fwd_for" -> IF level_left = 0 THEN 4 ELSE 0
    [] pc = "bwd_for" -> IF level_left = 0 THEN 2 ELSE 3
    [] pc = "while" -> 1
    [] pc = "cp_forward" -> 1
    [] OTHER -> 0

\* what is left to do, most significant first: actors to visit, actors to
\* dequeue, movies and cast members to enumerate (in the loop) or parent
\* steps to take (in construct_path)
Measure ==
  LET unvisited == 2 * MostVisited - Cardinality(forward_visited)
                     - Cardinality(backward_visited)
      queued == Len(forward_queue) + Len(backward_queue)
      steps == 2 * MostVisited - Len(path) - Len(backward_path_segment)
      inner == IF InConstructPath
                 THEN steps * Base
                 ELSE ((queued * Base + Cardinality(movie_ids)) * Base
                        + Cardinality(actor_ids)) * Base
  IN unvisited * Base * Base * Base * Base + inner + Phase

\* C19: every call returns: from any state of the loop or of construct_path
\* the call reaches its return, on every store, for every pair and in every
\* enumeration order, with or without store failures; each step that does not
\* return lowers a measure that never falls below zero, in the loop and in the
\* walks of construct_path alike; the loop returns NotFound at the first test
\* that finds a queue empty.
C19_Terminates ==
  /\ (InLoop \/ InConstructPath) ~> Returned
  /\ [][(InLoop \/ InConstructPath) =>
          (pc' = "done" \/ (0 <= Measure' /\ Measure' < Measure))]_vars
  /\ [][(pc = "while" /\ (forward_queue = <<>> \/ backward_queue = <<>>))
          => (pc' = "done" /\ result' = OkNone)]_vars

\* the loop stands at its test with a queue empty after a level that found
\* nothing new
C19_Witness ==
  /\ pc = "while"
  /\ forward_levels >= 1
  /\ forward_queue = <<>> \/ backward_queue = <<>>

(* --------------------------- the handler's answers -------------------- *)
\* the handler is through with the request
Finished == hpc \in {"responded", "panicked"}
Responded == hpc = "responded"
LookupFailed == ~start_actor_id_result.ok \/ ~target_actor_id_result.ok
NameUnknown == ~start_actor_id_result.some \/ ~target_actor_id_result.some
SearchRan == pc # "idle"

\* C11: the handler keeps the outcome classes apart: a store failure in a name
\* lookup is answered 500 and a name that resolves to no actor 404, both
\* without a search; a search that fails is answered 500, one that finds no
\* path 200 with a null path, one that finds a path 200 with the path.
C11_OutcomeClasses ==
  Finished =>
    IF LookupFailed
      THEN response.status = "500 Internal Server Error" /\ ~SearchRan
    ELSE IF NameUnknown
      THEN response.status = "404 Not Found" /\ ~SearchRan
    ELSE /\ SearchRan
         /\ result.kind = "Err" => response.status = "500 Internal Server Error"
         /\ result.kind = "None" =>
              response.status = "200 OK" /\ response.path = None
         /\ result.kind = "Some" =>
              response.status = "200 OK" /\ response.path # None

\* the movies of the store that both actors are in
SharedMovies(a, b) ==
  {r[1] : r \in {q \in movie_actors : q[2] = a /\ <<q[1], b>> \in movie_actors}}

\* the titles of a set of movies, listed once per movie in some order
TitleLists(ids) == {[k \in 1..Len(ord) |-> MovieTitle(ord[k])] : ord \in Orderings(ids)}

\* the response carries the found path as names, its number of links and one
\* link entry per two consecutive actors with the titles of their shared movies
PresentedPath ==
  LET path_ids == result.path
      n == Len(path_ids)
  IN /\ response.status = "200 OK"
     /\ response.error = None
     /\ response.link_number = Some(n - 1)
     /\ response.path = Some([k \in 1..n |-> ActorName(path_ids[k])])
     /\ response.link_path # None
     /\ LET links == response.link_path[1]
        IN /\ Len(links) = n - 1
           /\ \A k \in 1..(n - 1) :
                /\ links[k][1] = ActorName(path_ids[k])
                /\ links[k][3] = ActorName(path_ids[k + 1])
                /\ SharedMovies(path_ids[k], path_ids[k + 1]) # {}
                /\ links[k][2] \in
                     TitleLists(SharedMovies(path_ids[k], path_ids[k + 1]))

\* C18: for a found path of n actors the handler reports the names of the
\* actors in path order, link_number = n - 1 and one link entry per two
\* consecutive actors, in path order: the names of the two and the titles of
\* exactly the movies both are in, of which there is at least one; for a path
\* of one actor link_number is 0 and the list of links empty.
C18_Presentation ==
  (Finished /\ SearchRan /\ result.kind = "Some") => PresentedPath

\* every response that the handler does send for a found path is the report
\* of C18
ResponsesPresentPath ==
  (Responded /\ SearchRan /\ result.kind = "Some") => PresentedPath

\* a response for a path of three actors, the first two of them linked by two
\* movies
ThreeActorsPresented ==
  /\ Responded
  /\ result.kind = "Some"
  /\ Len(result.path) = 3
  /\ response.link_number = Some(2)
  /\ Len(response.link_path[1][1][2]) = 2

(* ----------------------- once for each direction ---------------------- *)
InSearch == InLoop \/ InConstructPath

\* no actor stands twice in the queue
NoRepeat(queue) == \A i, j \in 1..Len(queue) : queue[i] = queue[j] => i = j

\* the actors waiting in a queue were visited, each waits once, and the actor
\* being expanded does not wait again
QueueOk(queue, visited, level) ==
  /\ Range(queue) \subseteq visited
  /\ NoRepeat(queue)
  /\ pc \in level => current_actor_id \in visited \ Range(queue)

\* a step of one side within a search: nothing leaves the visited set, no entry
\* of the parent map is removed or rewritten, and the queue changes by the
\* dequeue of its head or by the enqueue of one actor not visited before
SideStep(queue, queue_next, visited, visited_next, parents, parents_next) ==
  /\ visited \subseteq visited_next
  /\ \A n \in DOMAIN parents :
       n \in DOMAIN parents_next /\ parents_next[n] = parents[n]
  /\ queue_next # queue =>
       \/ queue # <<>> /\ queue_next = Tail(queue) /\ visited_next = visited
       \/ \E n \in visited_next \ visited :
            /\ queue_next = Append(queue, n)
            /\ visited_next = visited \cup {n}
            /\ DOMAIN parents_next = DOMAIN parents \cup {n}

\* C21: within one search an actor is enqueued at most once and dequeued at
\* most once for each direction: every actor in forward_queue is in
\* forward_visited and every actor in backward_queue in backward_visited, no
\* queue holds an actor twice, an actor is enqueued only in the step that
\* makes it visited, a dequeued actor never returns to its queue, and an entry
\* of forward_path or backward_path, once recorded, is never overwritten.
C21_OncePerDirection ==
  [][/\ InSearch' =>
          /\ QueueOk(forward_queue, forward_visited,
                     {"fwd_movies", "fwd_actors"})'
          /\ QueueOk(backward_queue, backward_visited,
                     {"bwd_movies", "bwd_actors"})'
     /\ (InSearch /\ InSearch') =>
          /\ SideStep(forward_queue, forward_queue', forward_visited,
                      forward_visited', forward_path, forward_path')
          /\ SideStep(backward_queue, backward_queue', backward_visited,
                      backward_visited', backward_path, backward_path')]_vars

\* the forward level passes over an actor met before, in the cast of a second
\* movie, while two actors wait in forward_queue and one was dequeued
C21_Witness ==
  /\ pc = "fwd_actors"
  /\ Len(forward_queue) >= 2
  /\ current_actor_id # start_actor_id
  /\ \E n \in actor_ids : n \in DOMAIN forward_path /\ forward_path[n] # current_actor_id

(* ------------------------- the shared connection --------------------- *)
\* the requests between db_conn.lock() and the end of their handler
Holders == {w \in Requests : stage[w] = "locked"}

\* C22: requests to get_actor_link exclude one another on the shared
\* connection: at most one request holds the guard of db_conn, the handler
\* resolves names, searches and presents only while a request holds it, the
\* guard is taken only when no request is under way and given up only when the
\* holder has its response (or has panicked), so the steps of one request are
\* never interleaved with those of another.
C22_MutualExclusion ==
  [][/\ Cardinality(Holders') <= 1
     /\ db_conn'.locked <=> Holders' # {}
     /\ (hpc' # "idle" \/ pc' # "idle") => Holders' # {}
     /\ Holders' # Holders =>
          \/ Holders = {} /\ hpc = "idle" /\ pc = "idle"
          \/ Holders' = {} /\ hpc \in {"responded", "panicked"}
     /\ (<<pc, args, locals, cp_vars, result>> # <<pc, args, locals, cp_vars, result>>'
           \/ handler' # handler) =>
          Holders # {}]_vars

\* a request holds the guard in the middle of its search while another waits
\* for the lock and a third has its response
C22_Witness ==
  /\ pc = "bwd_actors"
  /\ hpc = "search"
  /\ Cardinality(Holders) = 1
  /\ \E w \in Requests : stage[w] = "pending"
  /\ \E w \in Requests : stage[w] = "responded"

\* C23: a request whose presentation fails does not keep later requests from
\* being served: whatever requests came before, db_conn.lock() gives a request
\* the connection, so no request is refused the guard and the mutex is never
\* left poisoned.
C23_LaterRequestsServed ==
  /\ ~db_conn.poisoned
  /\ \A w \in Requests : stage[w] # "refused"

(* ------------------------- ingestion in one piece --------------------- *)
PopulateFailed == populate_result \in {"Err(store)", "Err(fetch)"}

\* the rows in sight change in the committing step alone, where all that the
\* transaction wrote for every batch comes into sight at once
CommitsAtOnce ==
  [][Visible' # Visible =>
       /\ ppc = "commit"
       /\ populate_result' = "Ok"
       /\ Visible' = View(tx)]_vars

\* C24: ingestion is all or nothing: until populate_database returns Ok, and
\* for good when it returns an error, a reader sees the rows of movies, actors
\* and movie_actors that were there before the call and none that a batch
\* wrote; no transaction is left open by a failed call; and no failure to fetch
\* a movie makes the call fail, such a movie being passed over.
C24_AllOrNothing ==
  /\ populate_result # "Ok" => Visible \in {NoRows, PriorRows}
  /\ PopulateFailed => tx.state \in {"none", "rolled back"}
  /\ populate_result # "Err(fetch)"

\* a failed call whose first batch had been written: nothing of it is in sight
FirstBatchRolledBack ==
  /\ populate_result = "Err(store)"
  /\ stream = {}
  /\ ppc = "done"
  /\ Len(batch) = 1
  /\ Visible = PriorRows

TypeOK ==
  /\ movie_actors \subseteq Movies \X Actors
  /\ forward_visited \subseteq Actors
  /\ backward_visited \subseteq Actors
  /\ result.kind \in {"Pending", "None", "Some", "Err"}
====
